---- MODULE Spec2Model ----
(***************************************************************************)
(* spell-deploy: the deployment pipeline (deploy.py: deploy), the          *)
(* publication ingestion pipeline (deploy.py: fetch_publications,          *)
(* fetch_zotero.py: fetch_zotero) and the web panel's triggers (web.py).   *)
(*                                                                         *)
(* Every invocation of deploy() or fetch_publications() is a run.  Runs    *)
(* come from the command line (one process each) or from a request thread  *)
(* of the Flask server (threaded=True), so their statements interleave.    *)
(* The shared state is what lives on disk: the lock sentinel deploy.lock,  *)
(* the run log current.log, the transfer script deploy.lftp and the        *)
(* publication directory content/publication.                             *)
(*                                                                         *)
(* Strings the code inspects character by character are sequences of       *)
(* one-character strings.                                                  *)
(***************************************************************************)
EXTENDS Integers, Sequences, FiniteSets, TLC

\* Number of pipeline invocations in one behaviour.
MaxRuns == 2

Runs == 1..MaxRuns

\* Invocations of deploy.py that run no pipeline and are kept in cli
MaxCalls == 2

Kinds == {"deploy", "fetch"}

\* "cli": python deploy.py --update / --zotero; "web": GET /push, GET /zotero.
Origins == {"cli", "web"}

\* Outcome of one stage: the external tool returns 0, returns a nonzero
\* status, or the stage raises (os.chdir on a missing directory, a tool that
\* is not installed, shutil.rmtree failing, a network error).
Outcomes == {"ok", "nonzero", "raise"}

----------------------------------------------------------------------------
\* Character strings

Range(s) == {s[i] : i \in DOMAIN s}

Last(s) == s[Len(s)]

IsPrefix(s, t) == Len(s) <= Len(t) /\ SubSeq(t, 1, Len(s)) = s

RECURSIVE Flatten(_)
Flatten(ss) == IF ss = <<>> THEN <<>> ELSE Head(ss) \o Flatten(Tail(ss))

\* str.replace(old, new) for a non-empty old, scanning left to right.
RECURSIVE StrReplace(_, _, _)
StrReplace(s, old, new) ==
    IF Len(s) < Len(old) THEN s
    ELSE IF SubSeq(s, 1, Len(old)) = old
         THEN new \o StrReplace(SubSeq(s, Len(old) + 1, Len(s)), old, new)
         ELSE <<Head(s)>> \o StrReplace(Tail(s), old, new)

\* str.split(sep) for a one-character sep: empty tokens are kept.
RECURSIVE StrSplit(_, _)
StrSplit(s, sep) ==
    IF \A i \in DOMAIN s : s[i] # sep THEN <<s>>
    ELSE LET k == CHOOSE i \in DOMAIN s :
                      s[i] = sep /\ \A j \in 1..(i - 1) : s[j] # sep
         IN  <<SubSeq(s, 1, k - 1)>> \o StrSplit(SubSeq(s, k + 1, Len(s)), sep)

Lowercase == <<"a", "b", "c", "d", "e", "f", "g", "h", "i", "j", "k", "l", "m", "n", "o", "p", "q", "r", "s", "t", "u", "v", "w", "x", "y", "z">>

Uppercase == <<"A", "B", "C", "D", "E", "F", "G", "H", "I", "J", "K", "L", "M", "N", "O", "P", "Q", "R", "S", "T", "U", "V", "W", "X", "Y", "Z">>

Digits == {"0", "1", "2", "3", "4", "5", "6", "7", "8", "9"}

IsLower(c) == c \in Range(Lowercase)

IsUpper(c) == c \in Range(Uppercase)

IndexOf(c, s) == CHOOSE i \in DOMAIN s : s[i] = c

ToUpper(c) == IF IsLower(c) THEN Uppercase[IndexOf(c, Lowercase)] ELSE c

ToLower(c) == IF IsUpper(c) THEN Lowercase[IndexOf(c, Uppercase)] ELSE c

\* str.title(): a cased character is upper-cased when the character before
\* it is not cased and lower-cased otherwise.
RECURSIVE TitleFrom(_, _)
TitleFrom(s, prevCased) ==
    IF s = <<>> THEN <<>>
    ELSE LET c == Head(s)
             cased == IsLower(c) \/ IsUpper(c)
             d == IF ~cased THEN c
                  ELSE IF prevCased THEN ToLower(c) ELSE ToUpper(c)
         IN  <<d>> \o TitleFrom(Tail(s), cased)

StrTitle(s) == TitleFrom(s, FALSE)

\* str.isnumeric() on the characters of the model
IsNumeric(s) == s # <<>> /\ \A i \in DOMAIN s : s[i] \in Digits

\* re.sub('[^a-zA-Z0-9-_*.]', '', s)
FilenameChar(c) == IsLower(c) \/ IsUpper(c) \/ c \in Digits \/ c \in {"-", "_", "*", "."}

StripFilename(s) == SelectSeq(s, FilenameChar)

\* Python's None, among values that are character strings
None == <<"None">>

----------------------------------------------------------------------------
\* fetch_zotero.py

\* title[0:25]
TitleLen == 25

\* get_zotero_collection: attachments and child items are left out.
get_zotero_collection(items) ==
    SelectSeq(items, LAMBDA item :
        item.itemType # "attachment" /\ "parentItem" \notin DOMAIN item)

RECURSIVE ReplaceEach(_, _, _)
ReplaceEach(s, olds, new) ==
    IF olds = <<>> THEN s
    ELSE ReplaceEach(StrReplace(s, <<Head(olds)>>, new), Tail(olds), new)

\* format_date: the first token that has 4 characters and is numeric, or
\* None when the loop ends without returning.
format_date(date) ==
    LET tokens == StrSplit(ReplaceEach(date, <<" ", "-", "/", ",">>, <<"_">>), "_")
        years  == {i \in DOMAIN tokens : Len(tokens[i]) = 4 /\ IsNumeric(tokens[i])}
    IN  IF years = {} THEN None
        ELSE tokens[CHOOSE i \in years : \A j \in years : i <= j]

format_doi(doi) ==
    StrReplace(StrReplace(doi, <<"h", "t", "t", "p", ":", "/", "/", "d", "x", ".", "d", "o", "i", ".", "o", "r", "g", "/">>, <<>>),
               <<"d", "x", ".", "d", "o", "i", ".", "o", "r", "g", "/">>, <<>>)

\* The atomic parts of a first name: split on spaces, then on hyphens.
NameParts(firstname) ==
    LET bySpace == StrSplit(firstname, " ")
    IN  Flatten([i \in DOMAIN bySpace |-> StrSplit(bySpace[i], "-")])

\* firstname[0] of an empty first name raises IndexError.
format_firstname_raises(firstname) ==
    Len(NameParts(firstname)) = 1 /\ firstname = <<>>

RECURSIVE JoinInitials(_)
JoinInitials(parts) ==
    IF parts = <<>> THEN <<>>
    ELSE IF Len(parts) = 1 THEN <<Head(parts)[1]>>
    ELSE <<Head(parts)[1], ".">> \o JoinInitials(Tail(parts))

format_firstname(firstname) ==
    LET separated == NameParts(firstname)
    IN  IF Len(separated) = 1 THEN <<firstname[1], ".">>
        ELSE JoinInitials(SelectSeq(separated, LAMBDA name : name # <<>>)) \o <<".">>

IsPerson(creator) ==
    /\ creator.creatorType = "author"
    /\ "lastName" \in DOMAIN creator
    /\ "firstName" \in DOMAIN creator

IsOrganisation(creator) ==
    /\ ~IsPerson(creator)
    /\ creator.creatorType = "author"
    /\ "name" \in DOMAIN creator

format_authorship_raises(creators) ==
    \E i \in DOMAIN creators :
        IsPerson(creators[i]) /\ format_firstname_raises(creators[i].firstName)

RECURSIVE format_authorship(_)
format_authorship(creators) ==
    IF creators = <<>> THEN <<>>
    ELSE LET creator == Head(creators)
             rest == format_authorship(Tail(creators))
         IN  IF IsPerson(creator)
             THEN <<format_firstname(creator.firstName) \o <<" ">> \o creator.lastName>> \o rest
             ELSE IF IsOrganisation(creator) THEN <<creator.name>> \o rest
             ELSE rest

\* The keys the loop of fetch_zotero subscripts: a missing one is a KeyError.
RequiredKeys ==
    {"DOI", "publicationTitle", "title", "url", "issue", "volume", "date",
     "tags", "creators", "itemType"}

normalize_raises(article) ==
    \/ ~(RequiredKeys \subseteq DOMAIN article)
    \/ format_authorship_raises(article.creators)

\* The dict built for one article (fetch_zotero, the first loop).
normalize(article, lab_publication) ==
    [doi            |-> format_doi(article.DOI),
     journal        |-> article.publicationTitle,
     title          |-> article.title,
     pubURL         |-> article.url,
     issue          |-> article.issue,
     volume         |-> article.volume,
     year           |-> format_date(article.date),
     keyword        |-> [i \in DOMAIN article.tags |-> article.tags[i].tag],
     lastnames      |-> LET withLast == SelectSeq(article.creators,
                                LAMBDA creator : "lastName" \in DOMAIN creator)
                        IN  [i \in DOMAIN withLast |-> withLast[i].lastName],
     authorship     |-> format_authorship(article.creators),
     itemType       |-> article.itemType,
     labPublication |-> lab_publication]

\* Python's == between a str and a dict: values of different types are
\* never equal.
StrEqualsDict(s, d) == FALSE

\* 'lastnames' in articles: articles is the list of the collection's raw
\* items (dicts), searched for an element equal to the str 'lastnames'.
lastnames_in_articles(articles) ==
    \E i \in DOMAIN articles : StrEqualsDict("lastnames", articles[i])

\* article['authorship'][0] of an empty authorship raises IndexError.
create_filename_raises(article, articles) ==
    IF lastnames_in_articles(articles)
    THEN article.lastnames = <<>>
    ELSE article.authorship = <<>>

create_filename(article, articles) ==
    LET author0 == IF lastnames_in_articles(articles)
                   THEN article.lastnames[1]
                   ELSE StrSplit(article.authorship[1], " ")[1]
        author1 == StripFilename(author0)
        title1  == StripFilename(StrTitle(article.title))
        year    == IF article.year = None THEN <<"0", "0", "0", "0">>
                   ELSE article.year
        title   == IF title1 = <<>> THEN <<"X", "X", "X", "X">> ELSE title1
        author  == IF author1 = <<>> THEN <<"X", "X">> ELSE author1
    IN  author \o year \o <<"_">> \o SubSeq(title, 1, IF Len(title) < TitleLen THEN Len(title) ELSE TitleLen)

\* A directory is the set of its files; writing a file replaces the file of
\* the same name.
WriteFile(dir, name, body) ==
    {f \in dir : f.name # name} \cup {[name |-> name, body |-> body]}

\* fetch_zotero, the second loop: one document per article, in order; the
\* loop stops at the first article whose filename cannot be made.
RECURSIVE WriteDocuments(_, _, _)
WriteDocuments(collection, articles, pubdir) ==
    IF collection = <<>> THEN [dir |-> pubdir, raised |-> FALSE]
    ELSE IF create_filename_raises(Head(collection), articles)
         THEN [dir |-> pubdir, raised |-> TRUE]
         ELSE WriteDocuments(Tail(collection), articles,
                  WriteFile(pubdir,
                            create_filename(Head(collection), articles) \o <<".", "m", "d">>,
                            Head(collection)))

\* fetch_zotero(api_key, library_id, collection_id, pubdir, lab_publication)
\* on the items the service returns for the collection.
fetch_zotero(items, pubdir, lab_publication) ==
    LET articles == get_zotero_collection(items)
    IN  IF \E i \in DOMAIN articles : normalize_raises(articles[i])
        THEN [dir |-> pubdir, raised |-> TRUE]
        ELSE WriteDocuments([i \in DOMAIN articles |-> normalize(articles[i], lab_publication)],
                            articles, pubdir)

----------------------------------------------------------------------------
\* The items the bibliography service returns (inputs of the model)

\* A journal article by one person.
ItemBees ==
    [DOI |-> <<"h", "t", "t", "p", ":", "/", "/", "d", "x", ".", "d", "o", "i", ".", "o", "r", "g", "/", "1", "0", ".", "1", "/", "b">>,
     publicationTitle |-> <<"A", "p", "i", "s">>,
     title |-> <<"a", " ", "s", "t", "u", "d", "y", ":", " ", "o", "n", " ", "b", "e", "e", "s", "!">>,
     url |-> <<>>,
     issue |-> <<"1">>,
     volume |-> <<"2">>,
     date |-> <<"2", "0", "1", "9", "-", "0", "5", "-", "0", "1">>,
     tags |-> <<[tag |-> "bee"]>>,
     creators |-> <<[creatorType |-> "author", firstName |-> <<"J", "e", "a", "n", "-", "P", "a", "u", "l">>, lastName |-> <<"S", "a", "r", "t", "r", "e">>]>>,
     itemType |-> "journalArticle"]

\* Another article of the same author and year whose title gives the same
\* filename.
ItemBeesAgain ==
    [DOI |-> <<"1", "0", ".", "1", "/", "c">>,
     publicationTitle |-> <<"A", "p", "i", "s">>,
     title |-> <<"A", " ", "S", "t", "u", "d", "y", " ", "o", "n", " ", "B", "e", "e", "s">>,
     url |-> <<>>,
     issue |-> <<"1">>,
     volume |-> <<"2">>,
     date |-> <<"M", "a", "y", " ", "3", ",", " ", "2", "0", "1", "9">>,
     tags |-> <<[tag |-> "bee"]>>,
     creators |-> <<[creatorType |-> "author", firstName |-> <<"J", "e", "a", "n", "-", "P", "a", "u", "l">>, lastName |-> <<"S", "a", "r", "t", "r", "e">>]>>,
     itemType |-> "journalArticle"]

\* A report of an organisation, without a year in its date.
ItemReport ==
    [DOI |-> <<"d", "x", ".", "d", "o", "i", ".", "o", "r", "g", "/", "1", "0", ".", "2">>,
     publicationTitle |-> <<"A", "p", "i", "s">>,
     title |-> <<"R", "e", "p", "o", "r", "t", " ", "3", "d">>,
     url |-> <<>>,
     issue |-> <<"1">>,
     volume |-> <<"2">>,
     date |-> <<"n", ".", "d", ".">>,
     tags |-> <<[tag |-> "bee"]>>,
     creators |-> <<[creatorType |-> "author", name |-> <<"W", "H", "O">>]>>,
     itemType |-> "report"]

\* An item whose only creator is an editor: no formatted author.
ItemEdited ==
    [DOI |-> <<"1", "0", ".", "3">>,
     publicationTitle |-> <<"A", "p", "i", "s">>,
     title |-> <<"E", "s", "s", "a", "y", "s">>,
     url |-> <<>>,
     issue |-> <<"1">>,
     volume |-> <<"2">>,
     date |-> <<"2", "0", "2", "0">>,
     tags |-> <<[tag |-> "bee"]>>,
     creators |-> <<[creatorType |-> "editor", firstName |-> <<"A", "n", "n">>, lastName |-> <<"L", "e", "e">>]>>,
     itemType |-> "book"]

\* An item without a DOI field.
ItemNoDoi ==
    [publicationTitle |-> <<"A", "p", "i", "s">>,
     title |-> <<"O", "l", "d">>,
     url |-> <<>>,
     issue |-> <<"1">>,
     volume |-> <<"2">>,
     date |-> <<"1", "9", "9", "9", "/", "0", "1">>,
     tags |-> <<[tag |-> "bee"]>>,
     creators |-> <<[creatorType |-> "author", firstName |-> <<"J", "e", "a", "n", "-", "P", "a", "u", "l">>, lastName |-> <<"S", "a", "r", "t", "r", "e">>]>>,
     itemType |-> "journalArticle"]

\* An attachment, and a note that is the child of another item.
ItemAttachment == [itemType |-> "attachment", title |-> <<"p", "d", "f">>]

ItemChild ==
    [DOI |-> <<"1", "0", ".", "4">>,
     publicationTitle |-> <<"A", "p", "i", "s">>,
     title |-> <<"N", "o", "t", "e">>,
     url |-> <<>>,
     issue |-> <<"1">>,
     volume |-> <<"2">>,
     date |-> <<"2", "0", "2", "1">>,
     tags |-> <<[tag |-> "bee"]>>,
     creators |-> <<[creatorType |-> "author", name |-> <<"W", "H", "O">>]>>,
     itemType |-> "note",
     parentItem |-> "ItemBees"]

\* What the lab collection and the external collection hold upstream.
SampleUpstreams ==
    <<[lab |-> <<ItemBees, ItemReport>>, external |-> <<ItemAttachment, ItemBeesAgain>>],
      [lab |-> <<ItemReport, ItemChild>>, external |-> <<ItemBees>>],
      [lab |-> <<ItemBees, ItemEdited>>, external |-> <<ItemReport>>],
      [lab |-> <<ItemReport>>, external |-> <<ItemNoDoi>>]>>

\* The creators of a raw record: a person, an organisation, a person with
\* an empty given name, an editor only, nobody, a person with a two-word
\* last name, an author with a last name only.
CreatorLists ==
    <<ItemBees.creators,
      ItemReport.creators,
      <<[creatorType |-> "author", firstName |-> <<>>, lastName |-> <<"D", "o", "e">>]>>,
      ItemEdited.creators,
      <<>>,
      <<[creatorType |-> "author", firstName |-> <<"A", "n", "n">>, lastName |-> <<"d", "e", " ", "B", "o", "y">>],
        [creatorType |-> "author", name |-> <<"W", "H", "O">>]>>,
      <<[creatorType |-> "author", lastName |-> <<"P", "l", "a", "t", "o">>]>>>>

\* The date strings of a raw record.
Dates ==
    <<ItemBees.date,
      ItemReport.date,
      ItemBeesAgain.date,
      <<>>,
      <<"1", "9", " ", "2", "0", "2", "0", ",", "1", "9", "9", "9">>,
      <<"a", "b", "_", "2", "0", "1", "9">>,
      <<"2", "0", "1", "9", "5">>>>

\* The fields a raw record may come without; "none" leaves it whole.
Dropped ==
    <<"none", "DOI", "publicationTitle", "url", "issue", "volume", "date",
      "tags", "creators", "title">>

\* The raw record with the given creators and date, without the field key.
Record(creators, date, key) ==
    LET whole == [ItemBees EXCEPT !.creators = creators, !.date = date]
    IN  [k \in DOMAIN whole \ {key} |-> whole[k]]

\* One upstream per combination: the lab collection holds the record.
RecordUpstreams ==
    [n \in 1..(Len(CreatorLists) * Len(Dates) * Len(Dropped)) |->
        LET m == n - 1
            c == (m % Len(CreatorLists)) + 1
            d == ((m \div Len(CreatorLists)) % Len(Dates)) + 1
            k == (m \div (Len(CreatorLists) * Len(Dates))) + 1
        IN  [lab |-> <<Record(CreatorLists[c], Dates[d], Dropped[k])>>,
             external |-> <<ItemReport>>]]

Upstreams == SampleUpstreams \o RecordUpstreams

\* A document left in the publication directory by an earlier ingestion.
StaleDocument == [name |-> <<"J", ".", "1", "9", "9", "9", "_", "O", "l", "d", ".", "m", "d">>, body |-> normalize(ItemNoDoi @@ [DOI |-> <<>>], TRUE)]

----------------------------------------------------------------------------
\* deploy.py: configuration and the transfer script

\* deploy.conf: the values deploy() reads from the sections Local and SFTP.
Config(path, password) ==
    [server     |-> <<"h">>,
     username   |-> <<"u">>,
     password   |-> password,
     path       |-> path,
     repository |-> <<"/", "r">>]

\* The configurations of the pipeline model: a remote path with its trailing
\* slash, and an empty remote path.
SampleConfigs ==
    <<Config(<<"/", "w", "/">>, <<"s", "1">>),
      Config(<<>>, <<"s", "1">>)>>

\* Configurations that differ from those in the password or in the path.
PasswordConfigs ==
    <<Config(<<"/", "w", "/">>, <<"s", "2">>),
      Config(<<>>, <<"s", "2">>),
      Config(<<"/", "w">>, <<"s", "1">>),
      Config(<<"/", "w">>, <<"u">>),
      Config(<<"/">>, <<"s", "1">>),
      Config(<<"/">>, <<"h">>)>>

Configs == SampleConfigs \o PasswordConfigs

\* os.path.join(a, b) for a relative b
PathJoin(a, b) == IF a # <<>> /\ Last(a) # "/" THEN a \o <<"/">> \o b ELSE a \o b

dirs_to_del ==
    <<"about", "css", "fonts", "images", "js", "logo",
      "news", "page", "person", "project", "publication", "subject">>

files_to_del == <<"index.html", "index.xml", "sitemap.xml">>

\* sftp_path[-1] of an empty path raises IndexError.
generate_lftp_raises(sftp_path) == sftp_path = <<>>

\* A script whose open directive carries the password after the user name.
generate_lftp_with_password(sftp_server, sftp_user, sftp_password, sftp_path, local_dir) ==
    LET path == IF Last(sftp_path) = "/"
                THEN SubSeq(sftp_path, 1, Len(sftp_path) - 1)
                ELSE sftp_path
    IN  <<[op |-> "open -u -p 22 sftp://",
           args |-> <<sftp_user, sftp_password, sftp_server, path>>],
          [op |-> "mkdir -p -f", args |-> <<path>>],
          [op |-> "cd", args |-> <<path>>]>>
        \o [i \in DOMAIN dirs_to_del |-> [op |-> "rm -r", args |-> <<dirs_to_del[i]>>]]
        \o [i \in DOMAIN files_to_del |-> [op |-> "rm", args |-> <<files_to_del[i]>>]]
        \o <<[op |-> "cd ..", args |-> <<>>],
             [op |-> "mirror -R", args |-> <<local_dir, path>>]>>

\* The lines generate_lftp writes to deploy.lftp, one record per directive.
generate_lftp(sftp_server, sftp_user, sftp_password, sftp_path, local_dir) ==
    LET path == IF Last(sftp_path) = "/"
                THEN SubSeq(sftp_path, 1, Len(sftp_path) - 1)
                ELSE sftp_path
    IN  <<[op |-> "open -u --env-password -p 22 sftp://",
           args |-> <<sftp_user, sftp_server, path>>],
          [op |-> "mkdir -p -f", args |-> <<path>>],
          [op |-> "cd", args |-> <<path>>]>>
        \o [i \in DOMAIN dirs_to_del |-> [op |-> "rm -r", args |-> <<dirs_to_del[i]>>]]
        \o [i \in DOMAIN files_to_del |-> [op |-> "rm", args |-> <<files_to_del[i]>>]]
        \o <<[op |-> "cd ..", args |-> <<>>],
             [op |-> "mirror -R", args |-> <<local_dir, path>>]>>

\* No process has run lftp yet.
NoCall == [argv |-> <<>>, env |-> {}]

\* deploy.py:144-145: run(["lftp", "-f", "deploy.lftp"], env={...}); the
\* environment of the child process is the one variable LFTP_PASSWORD.
lftp_call(sftp_password) ==
    [argv |-> <<"lftp", "-f", "deploy.lftp">>,
     env  |-> {<<"LFTP_PASSWORD", sftp_password>>}]

NoFile == [exists |-> FALSE, lines |-> <<>>]

File(lines) == [exists |-> TRUE, lines |-> lines]

\* log(message, log_dir) for each message in turn: open(log_path, "a")
\* creates the file when it is missing.
AppendLines(file, messages) == File(file.lines \o messages)

\* reset_log(log_dir): remove current.log if it exists, then touch it.
reset_log(file) == File(<<>>)

AlreadyRunningMessage == "Another instance of the script is already running. Exiting..."

----------------------------------------------------------------------------
\* State

VARIABLES
    lockFile,    \* <cache_dir>/deploy.lock exists
    logFile,     \* <log_dir>/current.log
    scriptFile,  \* <cache_dir>/deploy.lftp
    pubDir,      \* the files of <repository>/content/publication
    config,      \* index in Configs of deploy.conf
    pool,        \* the callables handed to executor.submit (web.py:12)
    pc,          \* per run: the statement it is at
    kind,        \* per run: "deploy" or "fetch"
    origin,      \* per run: "cli" or "web"
    raised,      \* per run: what propagated out of the pipeline function
    trace,       \* per run: the stages it has started, in order
    failed,      \* per run: a tool of it has returned a nonzero status
    alone,       \* per run: no other run has taken a step during it
    fetched,     \* per run: index in Upstreams of what the service returned to it
    result,      \* per run: the publication directory when its ingestion ended
    cli,         \* the invocations of deploy.py that ran no pipeline
    lftpCall     \* the last invocation of lftp: its arguments and environment

vars == <<lockFile, logFile, scriptFile, pubDir, config, pool,
          pc, kind, origin, raised, trace, failed, alone, fetched, result,
          cli, lftpCall>>

files == <<lockFile, logFile, scriptFile, pubDir>>

Terminated == {"rejected", "exited", "crashed"}

InProgress(r) == pc[r] \notin Terminated \cup {"idle"}

\* Between lock() and unlock(): the pipeline stages.
InPipeline(r) ==
    pc[r] \in {"pull", "build", "generate_lftp", "lftp", "purge", "fetch_lab",
               "fetch_external", "unlock"}

Init ==
    /\ lockFile = FALSE
    /\ logFile = NoFile
    /\ scriptFile = NoFile
    /\ pubDir = {StaleDocument}
    /\ config \in DOMAIN SampleConfigs
    /\ pool = <<>>
    /\ pc = [r \in Runs |-> "idle"]
    /\ kind = [r \in Runs |-> "deploy"]
    /\ origin = [r \in Runs |-> "cli"]
    /\ raised = [r \in Runs |-> "none"]
    /\ trace = [r \in Runs |-> <<>>]
    /\ failed = [r \in Runs |-> FALSE]
    /\ alone = [r \in Runs |-> TRUE]
    /\ fetched = [r \in Runs |-> 0]
    /\ result = [r \in Runs |-> {}]
    /\ cli = <<>>
    /\ lftpCall = NoCall

\* Run r takes a step to statement next; every other run in progress has
\* been overlapped by it.
Goto(r, next) ==
    /\ pc' = [pc EXCEPT ![r] = next]
    /\ alone' = [q \in Runs |-> alone[q] /\ (q = r \/ ~InProgress(q))]

\* Run r starts the stage it is at.
Start(r) == trace' = [trace EXCEPT ![r] = Append(@, pc[r])]

\* An exception leaves the pipeline function: nothing after the raising
\* statement runs.
Crash(r) ==
    /\ Goto(r, "crashed")
    /\ raised' = [raised EXCEPT ![r] = "Exception"]

\* sys.exit() raises SystemExit in the calling thread.
SysExit(r, final) ==
    /\ Goto(r, final)
    /\ raised' = [raised EXCEPT ![r] = "SystemExit"]

\* subprocess.run without check=True: the exit status is dropped and the
\* caller goes on; an exception of the stage itself propagates.
AfterTool(r, outcome, next) ==
    /\ IF outcome = "raise" THEN Crash(r)
       ELSE Goto(r, next) /\ UNCHANGED raised
    /\ failed' = [failed EXCEPT ![r] = @ \/ outcome = "nonzero"]

----------------------------------------------------------------------------
\* Triggers

\* An invocation of deploy() or fetch_publications(): from the command line
\* (deploy.py:219-223, in the process's main thread) or from the handlers
\* push() and zotero(), where the argument of executor.submit is the call
\* deploy.deploy() itself, evaluated in the request thread before submit.
Trigger(r, k, o) ==
    /\ pc[r] = "idle"
    /\ \A q \in Runs : q < r => pc[q] # "idle"
    /\ pc' = [pc EXCEPT ![r] = "reset"]
    /\ kind' = [kind EXCEPT ![r] = k]
    /\ origin' = [origin EXCEPT ![r] = o]
    /\ UNCHANGED <<files, config, pool, cli, lftpCall, raised, trace, failed, alone,
                   fetched, result>>

\* The thread that executes the statements of run r.
Thread(r) == IF origin[r] = "web" THEN "request" ELSE "main"

----------------------------------------------------------------------------
\* deploy() and fetch_publications(): up to the lock

\* deploy.py:158-169 and deploy.py:200: the log is reset before the lock is
\* looked at.
ResetLog(r) ==
    /\ pc[r] = "reset"
    /\ logFile' = IF kind[r] = "deploy"
                  THEN AppendLines(reset_log(logFile),
                           <<"timestamp", "Parsing configuration parameters...",
                             "SFTP server", "SFTP user", "SFTP path">>)
                  ELSE reset_log(logFile)
    /\ Goto(r, "check")
    /\ UNCHANGED <<lockFile, scriptFile, pubDir, config, pool, cli, lftpCall, kind,
                   origin, raised, trace, failed, fetched, result>>

already_running(lock_file) == lock_file

\* The rejection without its sys.exit(): the run logs and goes on to lock().
Rejected_goes_on(r) ==
    /\ pc[r] = "check"
    /\ already_running(lockFile)
    /\ logFile' = AppendLines(logFile, <<AlreadyRunningMessage>>)
    /\ Goto(r, "lock")
    /\ UNCHANGED <<lockFile, scriptFile, pubDir, config, pool, cli, lftpCall, kind,
                   origin, raised, trace, failed, fetched, result>>

\* deploy.py:172-174, 208-210, the sentinel exists: log and sys.exit().
Rejected(r) ==
    /\ pc[r] = "check"
    /\ already_running(lockFile)
    /\ logFile' = AppendLines(logFile, <<AlreadyRunningMessage>>)
    /\ SysExit(r, "rejected")
    /\ UNCHANGED <<lockFile, scriptFile, pubDir, config, pool, cli, lftpCall, kind,
                   origin, trace, failed, fetched, result>>

\* deploy.py:172, 208, the sentinel does not exist: go on to lock().
NotRunning(r) ==
    /\ pc[r] = "check"
    /\ ~already_running(lockFile)
    /\ Goto(r, "lock")
    /\ UNCHANGED <<files, config, pool, cli, lftpCall, kind, origin, raised, trace,
                   failed, fetched, result>>

\* lock(cache_dir): Path.touch() creates the sentinel, or leaves it there.
lock(lock_file) == TRUE

Lock(r) ==
    /\ pc[r] = "lock"
    /\ lockFile' = lock(lockFile)
    /\ Start(r)
    /\ Goto(r, IF kind[r] = "deploy" THEN "pull" ELSE "purge")
    /\ UNCHANGED <<logFile, scriptFile, pubDir, config, pool, cli, lftpCall, kind,
                   origin, raised, failed, fetched, result>>

----------------------------------------------------------------------------
\* deploy(): the stages

\* deploy.py:177-178: log, then os.chdir(local_repository) and git pull.
Pull(r, outcome) ==
    /\ pc[r] = "pull"
    /\ logFile' = AppendLines(logFile, <<"Pulling changes from Github...">>)
    /\ Start(r)
    /\ AfterTool(r, outcome, "build")
    /\ UNCHANGED <<lockFile, scriptFile, pubDir, config, pool, cli, lftpCall, kind,
                   origin, fetched, result>>

\* A build stage that starts without its log line.
Build_unlogged(r, outcome) ==
    /\ pc[r] = "build"
    /\ Start(r)
    /\ AfterTool(r, outcome, "generate_lftp")
    /\ UNCHANGED <<files, config, pool, cli, lftpCall, kind, origin, fetched,
                   result>>

\* deploy.py:179-180: log, then the public directory is recreated and hugo
\* runs.
Build(r, outcome) ==
    /\ pc[r] = "build"
    /\ logFile' = AppendLines(logFile, <<"Rebuilding website...">>)
    /\ Start(r)
    /\ AfterTool(r, outcome, "generate_lftp")
    /\ UNCHANGED <<lockFile, scriptFile, pubDir, config, pool, cli, lftpCall, kind,
                   origin, fetched, result>>

\* A generation that appends the script to the one it finds.
GenerateLftp_appends(r) ==
    /\ pc[r] = "generate_lftp"
    /\ logFile' = AppendLines(logFile, <<"Uploading files...">>)
    /\ Start(r)
    /\ LET c == Configs[config]
       IN  IF generate_lftp_raises(c.path)
           THEN /\ scriptFile' = scriptFile
                /\ Crash(r)
           ELSE /\ scriptFile' = AppendLines(scriptFile,
                                     generate_lftp(c.server, c.username, c.password,
                                          c.path, PathJoin(c.repository, <<"p", "u", "b", "l", "i", "c">>)))
                /\ Goto(r, "lftp")
                /\ UNCHANGED raised
    /\ UNCHANGED <<lockFile, pubDir, config, pool, cli, lftpCall, kind, origin,
                   failed, fetched, result>>

\* deploy.py:181 and update() up to the end of generate_lftp: the old script
\* is removed (deploy.py:108-109) before the remote path is looked at.
GenerateLftp(r) ==
    /\ pc[r] = "generate_lftp"
    /\ logFile' = AppendLines(logFile, <<"Uploading files...">>)
    /\ Start(r)
    /\ LET c == Configs[config]
       IN  IF generate_lftp_raises(c.path)
           THEN /\ scriptFile' = NoFile
                /\ Crash(r)
           ELSE /\ scriptFile' = File(generate_lftp(c.server, c.username, c.password,
                                          c.path, PathJoin(c.repository, <<"p", "u", "b", "l", "i", "c">>)))
                /\ Goto(r, "lftp")
                /\ UNCHANGED raised
    /\ UNCHANGED <<lockFile, pubDir, config, pool, cli, lftpCall, kind, origin,
                   failed, fetched, result>>

\* update(), deploy.py:143-145: lftp -f deploy.lftp.
Lftp(r, outcome) ==
    /\ pc[r] = "lftp"
    /\ Start(r)
    /\ lftpCall' = lftp_call(Configs[config].password)
    /\ AfterTool(r, outcome, "unlock")
    /\ UNCHANGED <<files, config, pool, cli, kind, origin, fetched, result>>

\* os.remove of a file that does not exist raises FileNotFoundError.
unlock_raises(lock_file) == ~lock_file

\* An unlock that leaves the sentinel in place.
unlock_keeps(lock_file) == lock_file

\* unlock(cache_dir): os.remove(deploy.lock)
unlock(lock_file) == FALSE

\* deploy.py:184 and deploy.py:215
Unlock(r) ==
    /\ pc[r] = "unlock"
    /\ Start(r)
    /\ IF unlock_raises(lockFile)
       THEN /\ Crash(r)
            /\ UNCHANGED lockFile
       ELSE /\ lockFile' = unlock(lockFile)
            /\ Goto(r, "done")
            /\ UNCHANGED raised
    /\ UNCHANGED <<logFile, scriptFile, pubDir, config, pool, cli, lftpCall, kind,
                   origin, failed, fetched, result>>

\* deploy.py:186-187: log "Done." and sys.exit(); deploy.py:217: sys.exit().
Done(r) ==
    /\ pc[r] = "done"
    /\ Start(r)
    /\ logFile' = IF kind[r] = "deploy"
                  THEN AppendLines(logFile, <<"Done.">>)
                  ELSE logFile
    /\ SysExit(r, "exited")
    /\ UNCHANGED <<lockFile, scriptFile, pubDir, config, pool, cli, lftpCall, kind,
                   origin, failed, fetched, result>>

----------------------------------------------------------------------------
\* fetch_publications(): update_publications

\* A purge that only creates the directory when it is missing.
purged_keeps(dir) == dir

\* shutil.rmtree(publications_dir) and os.makedirs(publications_dir)
purged(dir) == {}

\* deploy.py:65-73: the log is reset again, then the publication directory
\* is deleted and recreated.
Purge(r, outcome) ==
    /\ pc[r] = "purge"
    /\ outcome # "nonzero"
    /\ logFile' = AppendLines(reset_log(logFile), <<"timestamp", "Removing old files...">>)
    /\ Start(r)
    /\ pubDir' = IF outcome = "raise" THEN pubDir ELSE purged(pubDir)
    /\ AfterTool(r, outcome, "fetch_lab")
    /\ UNCHANGED <<lockFile, scriptFile, config, pool, cli, lftpCall, kind, origin,
                   fetched, result>>

\* deploy.py:76-79: the lab collection.  The request to the service fails
\* (outcome "raise") or returns the lab items of Upstreams[u], on which
\* fetch_zotero runs.
FetchLab(r, outcome, u) ==
    /\ pc[r] = "fetch_lab"
    /\ outcome # "nonzero"
    /\ logFile' = AppendLines(logFile, <<"Fetching lab publications...">>)
    /\ Start(r)
    /\ LET got == fetch_zotero(Upstreams[u].lab, pubDir, TRUE)
       IN  IF outcome = "raise"
           THEN Crash(r) /\ UNCHANGED <<pubDir, fetched>>
           ELSE /\ pubDir' = got.dir
                /\ fetched' = [fetched EXCEPT ![r] = u]
                /\ IF got.raised THEN Crash(r)
                   ELSE Goto(r, "fetch_external") /\ UNCHANGED raised
    /\ UNCHANGED <<lockFile, scriptFile, config, pool, cli, lftpCall, kind, origin,
                   failed, result>>

\* deploy.py:80-84: the external collection of the same upstream data, then
\* "Done." is logged.
FetchExternal(r, outcome) ==
    /\ pc[r] = "fetch_external"
    /\ outcome # "nonzero"
    /\ Start(r)
    /\ LET got == fetch_zotero(Upstreams[fetched[r]].external, pubDir, FALSE)
           line == <<"Fetching team publications...">>
       IN  IF outcome = "raise"
           THEN /\ Crash(r)
                /\ logFile' = AppendLines(logFile, line)
                /\ UNCHANGED <<pubDir, result>>
           ELSE /\ pubDir' = got.dir
                /\ IF got.raised
                   THEN /\ Crash(r)
                        /\ logFile' = AppendLines(logFile, line)
                        /\ UNCHANGED result
                   ELSE /\ Goto(r, "unlock")
                        /\ logFile' = AppendLines(logFile, line \o <<"Done.">>)
                        /\ result' = [result EXCEPT ![r] = got.dir]
                        /\ UNCHANGED raised
    /\ UNCHANGED <<lockFile, scriptFile, config, pool, cli, lftpCall, kind, origin,
                   failed, fetched>>

----------------------------------------------------------------------------
\* web.py: the status queries

\* locked(): os.path.isfile(<cache_dir>/deploy.lock)
locked(lock_file) == lock_file

\* A dashboard whose lock query creates the sentinel it looks for.
Index_touches ==
    /\ lockFile' = TRUE
    /\ UNCHANGED <<logFile, scriptFile, pubDir, config, pool, cli, lftpCall, pc,
                   kind, origin, raised, trace, failed, alone, fetched, result>>

\* index(), web.py:36-39: the dashboard is rendered with locked=locked();
\* the handler reads the sentinel's existence and writes nothing.
Index ==
    /\ locked(lockFile) \in BOOLEAN
    /\ UNCHANGED vars

\* The body of the response of GET /_log: the lines of current.log joined
\* by <br>, or the empty string when the file does not exist.
log_response(file) == IF file.exists THEN file.lines ELSE <<>>

\* log(), web.py:54-62: the handler reads the log and writes nothing.
LogView ==
    /\ log_response(logFile) \in Seq(STRING)
    /\ UNCHANGED vars

----------------------------------------------------------------------------

Next ==
    \/ \E r \in Runs, k \in Kinds, o \in Origins : Trigger(r, k, o)
    \/ \E r \in Runs : ResetLog(r)
    \/ \E r \in Runs : Rejected(r)
    \/ \E r \in Runs : NotRunning(r)
    \/ \E r \in Runs : Lock(r)
    \/ \E r \in Runs, outcome \in Outcomes : Pull(r, outcome)
    \/ \E r \in Runs, outcome \in Outcomes : Build(r, outcome)
    \/ \E r \in Runs : GenerateLftp(r)
    \/ \E r \in Runs, outcome \in Outcomes : Lftp(r, outcome)
    \/ \E r \in Runs : Unlock(r)
    \/ \E r \in Runs : Done(r)
    \/ \E r \in Runs, outcome \in Outcomes : Purge(r, outcome)
    \/ \E r \in Runs, outcome \in Outcomes, u \in DOMAIN SampleUpstreams : FetchLab(r, outcome, u)
    \/ \E r \in Runs, outcome \in Outcomes : FetchExternal(r, outcome)
    \/ Index
    \/ LogView

Spec == Init /\ [][Next]_vars

----------------------------------------------------------------------------
\* Properties

\* Run q takes the step.
Steps(q) == pc'[q] # pc[q]

\* C1: at most one run is between its lock() and its unlock() at any time.
C1_MutualExclusion == Cardinality({r \in Runs : InPipeline(r)}) <= 1

\* C2: once a run that went past lock() has returned or exited, normally or
\* by a fault in one of its stages, and no other run is in its pipeline,
\* the lock sentinel is absent.
C2_LockReleased ==
    \A r \in Runs :
        (/\ pc[r] \in {"exited", "crashed"}
         /\ \A q \in Runs \ {r} : ~InPipeline(q))
        => ~lockFile

\* The stages of deploy() that come after a failed one.
DeployStages == {"pull", "build", "generate_lftp", "lftp"}

\* C3: once a tool of a deployment run has returned a nonzero status, the
\* run starts no further stage: it generates no transfer script and does
\* not invoke the mirror tool.
C3_FailFast ==
    [][\A r \in Runs :
          (failed[r] /\ Steps(r) /\ pc[r] \in DeployStages)
          => (trace'[r] = trace[r] /\ scriptFile' = scriptFile)]_vars

\* C4: a run whose already_running() check finds the sentinel appends the
\* 'already running' message and exits: it has started no stage and never
\* starts one, and its exit leaves the sentinel, the transfer script and the
\* publication directory as they are.
C4_RejectedNoOp ==
    [][\A r \in Runs :
          /\ (pc[r] = "check" /\ lockFile /\ Steps(r))
             => /\ pc'[r] = "rejected"
                /\ trace'[r] = <<>>
                /\ lockFile'
                /\ scriptFile' = scriptFile
                /\ pubDir' = pubDir
                /\ logFile'.lines = Append(logFile.lines, AlreadyRunningMessage)
          /\ pc[r] = "rejected" => (pc'[r] = "rejected" /\ trace'[r] = <<>>)]_vars

C4_Witness ==
    \E r, q \in Runs :
        /\ pc[r] = "rejected"
        /\ InPipeline(q)
        /\ lockFile
        /\ Last(logFile.lines) = AlreadyRunningMessage

\* C5: while a run is in its pipeline, a step of a run that is not in its
\* pipeline never truncates the log or removes lines from it.
C5_LogSingleWriter ==
    [][\A r, q \in Runs :
          (InPipeline(r) /\ q # r /\ ~InPipeline(q) /\ Steps(q))
          => IsPrefix(logFile.lines, logFile'.lines)]_vars

DeployOrder == <<"lock", "pull", "build", "generate_lftp", "lftp", "unlock", "done">>

\* The number of stages a deployment run at statement p has started.
StagesBefore(p) ==
    IF p = "exited" THEN Len(DeployOrder)
    ELSE (CHOOSE i \in DOMAIN DeployOrder : DeployOrder[i] = p) - 1

\* A deployment run that no other run has overlapped, that went past the
\* lock check and whose tools have all succeeded so far.
SoloDeploy(r) ==
    /\ kind[r] = "deploy"
    /\ alone[r]
    /\ ~failed[r]
    /\ pc[r] \in Range(DeployOrder) \cup {"exited"}

\* C6: a deployment run that finds the lock Free, whose tools all succeed
\* and that no other run overlaps executes lock, pull, build, script
\* generation, mirror transfer, unlock in that order; when it appends
\* 'Done.' the lock is already Free, and it exits with the lock Free and
\* 'Done.' as the last line of the log.
C6_EndToEnd ==
    [][\A r \in Runs :
          /\ SoloDeploy(r)' => trace'[r] = SubSeq(DeployOrder, 1, StagesBefore(pc'[r]))
          /\ (SoloDeploy(r)' /\ Steps(r) /\ pc'[r] = "exited")
             => /\ ~lockFile
                /\ ~lockFile'
                /\ "Done." \notin Range(logFile.lines)
                /\ Last(logFile'.lines) = "Done."]_vars

C6_Witness ==
    \E r \in Runs :
        /\ SoloDeploy(r)
        /\ pc[r] = "exited"
        /\ trace[r] = DeployOrder
        /\ ~lockFile
        /\ Last(logFile.lines) = "Done."

\* C7: a request to /push or /zotero that finds the lock held ends without
\* anything raised out of its handler.
C7_HeldRequestNoFault ==
    \A r \in Runs :
        (origin[r] = "web" /\ pc[r] = "rejected") => raised[r] = "none"

\* C8: the pipeline a request to /push or /zotero triggers has been handed
\* to the worker pool and executes on a pool worker, not in the request
\* thread.
C8_AsyncDispatch ==
    \A r \in Runs :
        (origin[r] = "web" /\ pc[r] # "idle")
        => (r \in Range(pool) /\ Thread(r) = "worker")

\* C9: unlock() raises no fault, also when the sentinel is absent: no run
\* ends by a fault of its unlock().
C9_UnlockNoFault ==
    \A r \in Runs :
        pc[r] = "crashed" => Last(trace[r]) # "unlock"

\* The document fetch_zotero writes for one upstream item.
DocumentOf(item, items, lab_publication) ==
    LET article == normalize(item, lab_publication)
    IN  [name |-> create_filename(article, items) \o <<".", "m", "d">>, body |-> article]

\* The documents derived from the records of Upstreams[u].
DocumentsOf(u) ==
    LET lab == get_zotero_collection(Upstreams[u].lab)
        external == get_zotero_collection(Upstreams[u].external)
    IN  {DocumentOf(lab[i], lab, TRUE) : i \in DOMAIN lab}
        \cup {DocumentOf(external[i], external, FALSE) : i \in DOMAIN external}

\* An ingestion run that no other run has overlapped and whose
\* update_publications has returned.
SoloIngestion(r) ==
    /\ kind[r] = "fetch"
    /\ alone[r]
    /\ pc[r] \in {"unlock", "done", "exited"}

\* C10: when the ingestion of a run that no other run overlaps has
\* completed, every file of the publication directory is a document derived
\* from the upstream records the run received, every such record has the
\* file of its name, and two such runs that received the same upstream
\* records leave the same directory contents.
C10_FullReplace ==
    \A r \in Runs :
        SoloIngestion(r)
        => /\ result[r] \subseteq DocumentsOf(fetched[r])
           /\ \A d \in DocumentsOf(fetched[r]) : \E f \in result[r] : f.name = d.name
           /\ \A q \in Runs :
                  (SoloIngestion(q) /\ fetched[q] = fetched[r]) => result[q] = result[r]

C10_Witness ==
    \E r, q \in Runs :
        /\ r # q
        /\ SoloIngestion(r) /\ pc[r] = "exited"
        /\ SoloIngestion(q) /\ pc[q] = "exited"
        /\ fetched[q] = fetched[r]
        /\ Cardinality(result[r]) = 2
        /\ pubDir = result[q]

----------------------------------------------------------------------------
\* One ingestion on every raw record

\* fetch_publications() invoked once, the service returning any of the
\* upstreams, those of RecordUpstreams included.
NextIngest ==
    \/ \E o \in Origins : Trigger(1, "fetch", o)
    \/ \E r \in Runs : ResetLog(r)
    \/ \E r \in Runs : NotRunning(r)
    \/ \E r \in Runs : Lock(r)
    \/ \E r \in Runs, outcome \in Outcomes : Purge(r, outcome)
    \/ \E r \in Runs, outcome \in Outcomes, u \in DOMAIN Upstreams : FetchLab(r, outcome, u)
    \/ \E r \in Runs, outcome \in Outcomes : FetchExternal(r, outcome)
    \/ \E r \in Runs : Unlock(r)
    \/ \E r \in Runs : Done(r)

SpecIngest == Init /\ [][NextIngest]_vars

\* The articles of the lab collection the service returned to run r.
LabArticles(r) == get_zotero_collection(Upstreams[fetched[r]].lab)

\* The service has returned the lab records to run r, and r has got no
\* further than their ingestion.
AtLabRecords(r) ==
    /\ kind[r] = "fetch"
    /\ fetched[r] # 0
    /\ Last(trace[r]) = "fetch_lab"

\* C11: an ingestion to which the service has returned the lab records does
\* not end in a fault on them, whatever fields they lack and whatever their
\* creators are: it writes one document per record and goes on to the
\* external collection.
C11_MissingFieldsNotFatal ==
    \A r \in Runs :
        AtLabRecords(r)
        => /\ pc[r] = "fetch_external"
           /\ Cardinality(pubDir) = Len(LabArticles(r))

\* The lab collection of ingestion r has been written and nothing else has
\* been written since the purge.
LabWritten(r) == kind[r] = "fetch" /\ pc[r] = "fetch_external"

\* The year as it stands in a filename.
FilenameYear(article) ==
    IF article.year = None THEN <<"0", "0", "0", "0">> ELSE article.year

\* C12: the filename of every written document starts with the first last
\* name of its record when the record has a creator with a lastName, and
\* only otherwise with the first space-separated token of its first
\* authorship entry (both filtered as filenames are), followed by the year.
C12_FilenameAuthor ==
    \A r \in Runs :
        LabWritten(r)
        => \A f \in pubDir :
               LET author == IF f.body.lastnames # <<>>
                             THEN f.body.lastnames[1]
                             ELSE StrSplit(f.body.authorship[1], " ")[1]
               IN  IsPrefix(StripFilename(author) \o FilenameYear(f.body), f.name)

\* The tokens of a date string between spaces, hyphens, slashes and commas.
RECURSIVE DateTokens(_)
DateTokens(date) ==
    LET seps == {i \in DOMAIN date : date[i] \in {" ", "-", "/", ","}}
    IN  IF seps = {} THEN <<date>>
        ELSE LET k == CHOOSE i \in seps : \A j \in seps : i <= j
             IN  <<SubSeq(date, 1, k - 1)>> \o DateTokens(SubSeq(date, k + 1, Len(date)))

\* The first of those tokens that is 4 characters long and numeric, or the
\* sentinel.
YearOrSentinel(date) ==
    LET tokens == DateTokens(date)
        years  == {i \in DOMAIN tokens : Len(tokens[i]) = 4 /\ IsNumeric(tokens[i])}
    IN  IF years = {} THEN <<"0", "0", "0", "0">>
        ELSE tokens[CHOOSE i \in years : \A j \in years : i <= j]

\* s occurs in t.
Occurs(s, t) == \E k \in 0..(Len(t) - Len(s)) : SubSeq(t, k + 1, k + Len(s)) = s

\* C13: every record of the lab collection has a written document whose
\* year field is the first 4-character numeric token of the record's date,
\* or "0000" when the date has none, and whose filename carries that year.
C13_YearOrSentinel ==
    \A r \in Runs :
        LabWritten(r)
        => \A i \in DOMAIN LabArticles(r) :
               \E f \in pubDir :
                   /\ f.body.title = LabArticles(r)[i].title
                   /\ f.body.year = YearOrSentinel(LabArticles(r)[i].date)
                   /\ Occurs(f.body.year \o <<"_">>, f.name)

----------------------------------------------------------------------------
\* One deployment on every configuration

\* The script update() has generate_lftp write for a configuration
\* (deploy.py:138-142).
ScriptOf(c) ==
    generate_lftp(c.server, c.username, c.password, c.path,
                  PathJoin(c.repository, <<"p", "u", "b", "l", "i", "c">>))

\* What the cache directory may hold of an earlier deployment: no script,
\* the script of any configuration, or the first lines of one.
OldScripts ==
    {NoFile}
    \cup {File(ScriptOf(Configs[c])) :
              c \in {d \in DOMAIN Configs : ~generate_lftp_raises(Configs[d].path)}}
    \cup {File(SubSeq(ScriptOf(Configs[1]), 1, Len(dirs_to_del)))}

InitDeploy ==
    /\ lockFile = FALSE
    /\ logFile = NoFile
    /\ scriptFile \in OldScripts
    /\ pubDir = {StaleDocument}
    /\ config \in DOMAIN Configs
    /\ pool = <<>>
    /\ pc = [r \in Runs |-> "idle"]
    /\ kind = [r \in Runs |-> "deploy"]
    /\ origin = [r \in Runs |-> "cli"]
    /\ raised = [r \in Runs |-> "none"]
    /\ trace = [r \in Runs |-> <<>>]
    /\ failed = [r \in Runs |-> FALSE]
    /\ alone = [r \in Runs |-> TRUE]
    /\ fetched = [r \in Runs |-> 0]
    /\ result = [r \in Runs |-> {}]
    /\ cli = <<>>
    /\ lftpCall = NoCall

\* deploy() invoked once.
NextDeploy ==
    \/ \E o \in Origins : Trigger(1, "deploy", o)
    \/ \E r \in Runs : ResetLog(r)
    \/ \E r \in Runs : NotRunning(r)
    \/ \E r \in Runs : Lock(r)
    \/ \E r \in Runs, outcome \in Outcomes : Pull(r, outcome)
    \/ \E r \in Runs, outcome \in Outcomes : Build(r, outcome)
    \/ \E r \in Runs : GenerateLftp(r)
    \/ \E r \in Runs, outcome \in Outcomes : Lftp(r, outcome)
    \/ \E r \in Runs : Unlock(r)
    \/ \E r \in Runs : Done(r)

SpecDeploy == InitDeploy /\ [][NextDeploy]_vars

\* Run r has started the stage.
Started(r, stage) == stage \in Range(trace[r])

\* Configuration d is c with another password.
OnlyPasswordDiffers(c, d) ==
    c.password # d.password /\ [c EXCEPT !.password = d.password] = d

\* C14: the script a deployment has written is the script of every
\* configuration that differs from its own in the password only; lftp is
\* invoked with the arguments -f deploy.lftp, the same for every password,
\* and with LFTP_PASSWORD as its whole environment, and before the transfer
\* stage no invocation has got the password.
C14_SecretConfinement ==
    \A r \in Runs :
        /\ (Started(r, "generate_lftp") /\ scriptFile.exists)
           => \A d \in DOMAIN Configs :
                  OnlyPasswordDiffers(Configs[config], Configs[d])
                  => scriptFile.lines = ScriptOf(Configs[d])
        /\ Started(r, "lftp")
           => /\ lftpCall.argv = <<"lftp", "-f", "deploy.lftp">>
              /\ lftpCall.env = {<<"LFTP_PASSWORD", Configs[config].password>>}
        /\ (\A q \in Runs : ~Started(q, "lftp")) => lftpCall = NoCall

C14_Witness ==
    \E r \in Runs, d \in DOMAIN Configs :
        /\ pc[r] = "exited"
        /\ Started(r, "lftp")
        /\ OnlyPasswordDiffers(Configs[config], Configs[d])
        /\ scriptFile = File(ScriptOf(Configs[d]))
        /\ lftpCall.env # {<<"LFTP_PASSWORD", Configs[d].password>>}

----------------------------------------------------------------------------
\* The command line of deploy.py

\* sys.argv[1:] of an invocation.
Argvs ==
    {<<>>, <<"-u">>, <<"--update">>, <<"-z">>, <<"--zotero">>, <<"-h">>,
     <<"--help">>, <<"update">>, <<"-x">>, <<"-x", "-u">>, <<"">>}

Usage == "-u, --update: Deploy website.\n-z, --zotero: Update publications locally."

\* The process ends without any pipeline function having been called: what
\* it printed, the exception that ended it if any, and its exit status.
Returned(argv, stdout, exception, status) ==
    /\ Len(cli) < MaxCalls
    /\ cli' = Append(cli, [argv |-> argv, stdout |-> stdout,
                           exception |-> exception, status |-> status])
    /\ UNCHANGED <<files, config, pool, pc, kind, origin, raised, trace,
                   failed, alone, fetched, result, lftpCall>>

\* deploy.py:219-228.  sys.argv[1] of an invocation without argument raises
\* IndexError: the interpreter prints the traceback and exits with status
\* 1.  When the if statement ends, the interpreter exits with status 0.
Main(argv) ==
    IF argv = <<>> THEN Returned(argv, "", "IndexError", 1)
    ELSE IF argv[1] \in {"-u", "--update"}
         THEN \E r \in Runs : Trigger(r, "deploy", "cli")
    ELSE IF argv[1] \in {"-z", "--zotero"}
         THEN \E r \in Runs : Trigger(r, "fetch", "cli")
    ELSE IF argv[1] \in {"-h", "--help"}
         THEN Returned(argv, Usage, "none", 0)
    ELSE Returned(argv, "Missing option.", "none", 0)

NextCli == \E argv \in Argvs : Main(argv)

SpecCli == Init /\ [][NextCli]_vars

\* The arguments deploy.py knows.
Options == {"-u", "--update", "-z", "--zotero", "-h", "--help"}

\* C15: an invocation without argument or with an unknown first argument
\* prints the 'missing option' message and exits with a nonzero status, and
\* it starts no pipeline and leaves the lock and the log as they are.
C15_MissingOption ==
    [][\A call \in Range(cli') \ Range(cli) :
          (call.argv = <<>> \/ call.argv[1] \notin Options)
          => /\ call.stdout = "Missing option."
             /\ call.status # 0
             /\ pc' = pc
             /\ lockFile' = lockFile
             /\ logFile' = logFile]_vars

----------------------------------------------------------------------------
\* Stage logging

\* The line deploy() logs before a stage (deploy.py:177, 179, 181).
StageMessage(stage) ==
    CASE stage = "pull" -> "Pulling changes from Github..."
      [] stage = "build" -> "Rebuilding website..."
      [] stage = "generate_lftp" -> "Uploading files..."

\* Run r takes the step that starts the stage it is at, the stages before
\* it having been started in order.
StartsStage(r, stage) ==
    /\ kind[r] = "deploy"
    /\ pc[r] = stage
    /\ Steps(r)
    /\ trace[r] = SubSeq(DeployOrder, 1, StagesBefore(stage))
    /\ trace'[r] = Append(trace[r], stage)

\* C16 as stated: the step by which a deployment run starts any of its
\* four stages appends one line to the log, the line of that stage.
C16_EveryStageLogged ==
    [][\A r \in Runs : \A stage \in DeployStages :
          StartsStage(r, stage)
          => Len(logFile'.lines) = Len(logFile.lines) + 1]_vars

\* C16: the step by which a deployment run starts the source sync, the site
\* build or the upload appends the line of that stage to the log before the
\* stage acts; the upload is the generation of the transfer script followed
\* by the mirror transfer, which starts without a line of its own.
C16_StageLogged ==
    [][\A r \in Runs :
          /\ \A stage \in DeployStages \ {"lftp"} :
                 StartsStage(r, stage)
                 => logFile'.lines = Append(logFile.lines, StageMessage(stage))
          /\ StartsStage(r, "lftp") => logFile' = logFile]_vars

C16_Witness ==
    \E r \in Runs :
        /\ kind[r] = "deploy"
        /\ pc[r] = "unlock"
        /\ Len(logFile.lines) >= 3
        /\ SubSeq(logFile.lines, Len(logFile.lines) - 2, Len(logFile.lines))
               = <<StageMessage("pull"), StageMessage("build"),
                   StageMessage("generate_lftp")>>

----------------------------------------------------------------------------
\* The transfer script

\* The directives of a script, without their arguments.
Ops(lines) == [i \in DOMAIN lines |-> lines[i].op]

PurgeOps == {"rm -r", "rm"}

\* The names purged, in the order of the two lists.
PurgeList == dirs_to_del \o files_to_del

----------------------------------------------------------------------------
\* Lock ownership

\* Run r takes the step that creates the sentinel: it has passed the
\* already_running() check and executes lock().
CreatesLock(r) == Steps(r) /\ pc[r] = "lock" /\ lockFile'

\* Run r takes the step that removes the sentinel: it executes unlock(),
\* having executed lock() as its first stage.
RemovesLock(r) ==
    /\ Steps(r)
    /\ pc[r] = "unlock"
    /\ trace[r] # <<>>
    /\ Head(trace[r]) = "lock"
    /\ ~lockFile'

\* C18: every step that changes the existence of the lock sentinel is the
\* lock() or the unlock() of a run that went past its already_running()
\* check, every run that executes unlock() has executed lock() before, no
\* run that executed lock() is a rejected one, and the step of a rejected
\* trigger leaves the sentinel as it is; a status
\* query (the dashboard with locked(), /_log) is a step of no run, so it
\* never changes the sentinel.
C18_LockOwnership ==
    [][/\ lockFile' # lockFile
          => \E r \in Runs : CreatesLock(r) \/ RemovesLock(r)
       /\ \A r \in Runs :
              /\ (Steps(r) /\ pc[r] = "unlock") => Started(r, "lock")
              /\ (Steps(r) /\ pc'[r] = "rejected") => lockFile' = lockFile
              /\ Started(r, "lock") => pc[r] # "rejected"]_vars

C18_Witness ==
    \E r, q \in Runs :
        /\ Started(r, "unlock")
        /\ pc[r] = "exited"
        /\ pc[q] = "rejected"
        /\ ~lockFile

====
